---- MODULE Spec2Model ----
(***************************************************************************)
(* Model of scripts/setup.py: main() loads config/config.yaml, writes      *)
(* config/.env and docker/docker-compose.yml and creates the notebooks and *)
(* data directories.  The filesystem is the shared state; one run of       *)
(* main() is a sequence of steps, and the script may be run again.         *)
(***************************************************************************)
EXTENDS Integers, Sequences, FiniteSets, TLC

\* Bounds of the model.
MaxPathLen == 3      \* longest volumes.notebooks_path drawn, in characters
MaxRuns == 2         \* number of runs of main() in one behaviour
MaxMissing == 1      \* number of keys removed from a complete Configuration

(***************************************************************************)
(* Python values of the parsed YAML document.  A string is a sequence of   *)
(* one-character strings, so that str.lstrip can be computed.              *)
(***************************************************************************)
StrV(chars) == [t |-> "str", v |-> chars]
IntV(n) == [t |-> "int", v |-> n]
MapV(m) == [t |-> "map", v |-> m]
NullV == [t |-> "null", v |-> 0]

RECURSIVE Concat(_)
Concat(chars) == IF chars = <<>> THEN "" ELSE Head(chars) \o Concat(Tail(chars))

\* format(value) inside an f-string: str() of the value.
Str(val) ==
  CASE val.t = "int" -> ToString(val.v)
    [] val.t = "str" -> Concat(val.v)
    [] val.t = "null" -> "None"
    [] OTHER -> "{...}"

\* node[key] in Python.
Subscript(node, key) ==
  IF node.t = "map"
    THEN IF key \in DOMAIN node.v
           THEN [exc |-> "none", val |-> node.v[key]]
           ELSE [exc |-> "KeyError", val |-> NullV]
    ELSE [exc |-> "TypeError", val |-> NullV]

\* config[k1][k2]...[kn], evaluated left to right.
RECURSIVE GetPath(_, _)
GetPath(node, path) ==
  IF path = <<>>
    THEN [exc |-> "none", val |-> node]
    ELSE LET r == Subscript(node, Head(path))
         IN IF r.exc # "none" THEN r ELSE GetPath(r.val, Tail(path))

\* The first exception raised when the lookups are evaluated in order.
FirstExc(cfg, paths) ==
  LET bad == {i \in 1..Len(paths) : GetPath(cfg, paths[i]).exc # "none"}
  IN IF bad = {} THEN "none"
     ELSE GetPath(cfg, paths[CHOOSE i \in bad : \A j \in bad : i <= j]).exc

(***************************************************************************)
(* Text files are sequences of lines; a line is its indentation and its    *)
(* tokens.                                                                 *)
(***************************************************************************)
L(indent, toks) == [indent |-> indent, toks |-> toks]
Blank == L(0, <<>>)
Comment(text) == L(0, <<"#", text>>)
Assign(key, val) == L(0, <<key, "=", val>>)
K(i, key) == L(i, <<key, ":">>)
KV(i, key, val) == L(i, <<key, ":", " ", val>>)
It(i, val) == L(i, <<"-", " ", val>>)

NoFile == [exists |-> FALSE, lines |-> <<>>]
File(lines) == [exists |-> TRUE, lines |-> lines]

(***************************************************************************)
(* generate_env_file: the lookups of the f-string, in source order, and    *)
(* the text it builds.                                                     *)
(***************************************************************************)
EnvLookups_NoNetwork ==
  << <<"spark", "version">>,
     <<"spark", "master", "memory">>,
     <<"spark", "master", "cores">>,
     <<"spark", "worker", "memory">>,
     <<"spark", "worker", "cores">>,
     <<"spark", "worker", "instances">>,
     <<"spark", "executor", "memory">>,
     <<"spark", "executor", "cores">>,
     <<"python", "version">>,
     <<"containers", "jupyter", "port">>,
     <<"containers", "spark_master", "ui_port">>,
     <<"containers", "spark_master", "port">>,
     <<"containers", "spark_worker", "ui_port">>,
     <<"volumes", "notebooks_path">>,
     <<"volumes", "data_path">> >>

EnvLookups ==
  << <<"spark", "version">>,
     <<"spark", "master", "memory">>,
     <<"spark", "master", "cores">>,
     <<"spark", "worker", "memory">>,
     <<"spark", "worker", "cores">>,
     <<"spark", "worker", "instances">>,
     <<"spark", "executor", "memory">>,
     <<"spark", "executor", "cores">>,
     <<"python", "version">>,
     <<"containers", "jupyter", "port">>,
     <<"containers", "spark_master", "ui_port">>,
     <<"containers", "spark_master", "port">>,
     <<"containers", "spark_worker", "ui_port">>,
     <<"volumes", "notebooks_path">>,
     <<"volumes", "data_path">>,
     <<"network", "name">> >>

F(cfg, path) == Str(GetPath(cfg, path).val)

EnvContent_SwapPorts(cfg) ==
  << Comment(" Auto-generated from config/config.yaml"),
     Comment(" Spark Configuration"),
     Assign("SPARK_VERSION", F(cfg, <<"spark", "version">>)),
     Assign("SPARK_MASTER_MEMORY", F(cfg, <<"spark", "master", "memory">>)),
     Assign("SPARK_MASTER_CORES", F(cfg, <<"spark", "master", "cores">>)),
     Assign("SPARK_WORKER_MEMORY", F(cfg, <<"spark", "worker", "memory">>)),
     Assign("SPARK_WORKER_CORES", F(cfg, <<"spark", "worker", "cores">>)),
     Assign("SPARK_WORKER_INSTANCES", F(cfg, <<"spark", "worker", "instances">>)),
     Assign("SPARK_EXECUTOR_MEMORY", F(cfg, <<"spark", "executor", "memory">>)),
     Assign("SPARK_EXECUTOR_CORES", F(cfg, <<"spark", "executor", "cores">>)),
     Blank,
     Comment(" Python Configuration"),
     Assign("PYTHON_VERSION", F(cfg, <<"python", "version">>)),
     Blank,
     Comment(" Container Ports"),
     Assign("JUPYTER_PORT", F(cfg, <<"containers", "jupyter", "port">>)),
     Assign("SPARK_MASTER_UI_PORT", F(cfg, <<"containers", "spark_master", "port">>)),
     Assign("SPARK_MASTER_PORT", F(cfg, <<"containers", "spark_master", "ui_port">>)),
     Assign("SPARK_WORKER_UI_PORT", F(cfg, <<"containers", "spark_worker", "ui_port">>)),
     Blank,
     Comment(" Volume Paths"),
     Assign("NOTEBOOKS_PATH", F(cfg, <<"volumes", "notebooks_path">>)),
     Assign("DATA_PATH", F(cfg, <<"volumes", "data_path">>)),
     Blank,
     Comment(" Network"),
     Assign("NETWORK_NAME", F(cfg, <<"network", "name">>)) >>

EnvContent(cfg) ==
  << Comment(" Auto-generated from config/config.yaml"),
     Comment(" Spark Configuration"),
     Assign("SPARK_VERSION", F(cfg, <<"spark", "version">>)),
     Assign("SPARK_MASTER_MEMORY", F(cfg, <<"spark", "master", "memory">>)),
     Assign("SPARK_MASTER_CORES", F(cfg, <<"spark", "master", "cores">>)),
     Assign("SPARK_WORKER_MEMORY", F(cfg, <<"spark", "worker", "memory">>)),
     Assign("SPARK_WORKER_CORES", F(cfg, <<"spark", "worker", "cores">>)),
     Assign("SPARK_WORKER_INSTANCES", F(cfg, <<"spark", "worker", "instances">>)),
     Assign("SPARK_EXECUTOR_MEMORY", F(cfg, <<"spark", "executor", "memory">>)),
     Assign("SPARK_EXECUTOR_CORES", F(cfg, <<"spark", "executor", "cores">>)),
     Blank,
     Comment(" Python Configuration"),
     Assign("PYTHON_VERSION", F(cfg, <<"python", "version">>)),
     Blank,
     Comment(" Container Ports"),
     Assign("JUPYTER_PORT", F(cfg, <<"containers", "jupyter", "port">>)),
     Assign("SPARK_MASTER_UI_PORT", F(cfg, <<"containers", "spark_master", "ui_port">>)),
     Assign("SPARK_MASTER_PORT", F(cfg, <<"containers", "spark_master", "port">>)),
     Assign("SPARK_WORKER_UI_PORT", F(cfg, <<"containers", "spark_worker", "ui_port">>)),
     Blank,
     Comment(" Volume Paths"),
     Assign("NOTEBOOKS_PATH", F(cfg, <<"volumes", "notebooks_path">>)),
     Assign("DATA_PATH", F(cfg, <<"volumes", "data_path">>)),
     Blank,
     Comment(" Network"),
     Assign("NETWORK_NAME", F(cfg, <<"network", "name">>)) >>

(***************************************************************************)
(* generate_docker_compose: the manifest template.  Only network_name is   *)
(* substituted; every ${VAR:-default} is literal text.                     *)
(***************************************************************************)
VolumesOpt ==
  << It(6, "../${NOTEBOOKS_PATH:-./notebooks}:/opt/notebooks"),
     It(6, "../${DATA_PATH:-./data}:/opt/data"),
     It(6, "../${DATA_PATH:-./data}:/home/jovyan/data") >>

ComposeTemplate(network_name) ==
  << Comment(" Configuration-driven Spark environment"),
     K(0, "services"),
     K(2, "spark-master"),
     KV(4, "image", "bitnami/spark:${SPARK_VERSION:-3.5.0}"),
     KV(4, "container_name", "spark-master"),
     K(4, "environment"),
     It(6, "SPARK_MODE=master"),
     It(6, "SPARK_RPC_AUTHENTICATION_ENABLED=no"),
     It(6, "SPARK_RPC_ENCRYPTION_ENABLED=no"),
     It(6, "SPARK_LOCAL_STORAGE_ENCRYPTION_ENABLED=no"),
     It(6, "SPARK_SSL_ENABLED=no"),
     It(6, "SPARK_USER=spark"),
     K(4, "ports"),
     It(6, "\"${SPARK_MASTER_UI_PORT:-8080}:8080\""),
     It(6, "\"${SPARK_MASTER_PORT:-7077}:7077\""),
     K(4, "volumes") >> \o VolumesOpt \o
  << K(4, "networks"),
     It(6, network_name),
     Blank,
     K(2, "spark-worker"),
     KV(4, "image", "bitnami/spark:${SPARK_VERSION:-3.5.0}"),
     KV(4, "container_name", "spark-worker"),
     K(4, "environment"),
     It(6, "SPARK_MODE=worker"),
     It(6, "SPARK_MASTER_URL=spark://spark-master:7077"),
     It(6, "SPARK_WORKER_MEMORY=${SPARK_WORKER_MEMORY:-2g}"),
     It(6, "SPARK_WORKER_CORES=${SPARK_WORKER_CORES:-2}"),
     It(6, "SPARK_RPC_AUTHENTICATION_ENABLED=no"),
     It(6, "SPARK_RPC_ENCRYPTION_ENABLED=no"),
     It(6, "SPARK_LOCAL_STORAGE_ENCRYPTION_ENABLED=no"),
     It(6, "SPARK_SSL_ENABLED=no"),
     It(6, "SPARK_USER=spark"),
     K(4, "ports"),
     It(6, "\"${SPARK_WORKER_UI_PORT:-8081}:8081\""),
     K(4, "volumes") >> \o VolumesOpt \o
  << K(4, "depends_on"),
     It(6, "spark-master"),
     K(4, "networks"),
     It(6, network_name),
     K(4, "deploy"),
     KV(6, "replicas", "${SPARK_WORKER_INSTANCES:-1}"),
     Blank,
     K(2, "jupyter"),
     L(4, <<"build", ":", " ">>),
     KV(6, "context", ".."),
     KV(6, "dockerfile", "docker/Dockerfile"),
     K(6, "args"),
     KV(8, "PYTHON_VERSION", "${PYTHON_VERSION:-3.11}"),
     KV(4, "container_name", "jupyter-pyspark"),
     K(4, "environment"),
     It(6, "JUPYTER_ENABLE_LAB=yes"),
     It(6, "SPARK_MASTER_URL=spark://spark-master:7077"),
     It(6, "PYSPARK_SUBMIT_ARGS=--master spark://spark-master:7077 --executor-memory ${SPARK_EXECUTOR_MEMORY:-1g} --executor-cores ${SPARK_EXECUTOR_CORES:-1} pyspark-shell"),
     K(4, "ports"),
     It(6, "\"${JUPYTER_PORT:-8888}:8888\""),
     K(4, "volumes"),
     It(6, "../${NOTEBOOKS_PATH:-./notebooks}:/home/jovyan/notebooks"),
     It(6, "../${DATA_PATH:-./data}:/home/jovyan/data"),
     It(6, "../${DATA_PATH:-./data}:/opt/data"),
     K(4, "depends_on"),
     It(6, "spark-master"),
     It(6, "spark-worker"),
     K(4, "networks"),
     It(6, network_name),
     Blank,
     K(0, "networks"),
     K(2, network_name),
     KV(4, "driver", "bridge"),
     Blank,
     K(0, "volumes"),
     K(2, "notebooks"),
     K(2, "data") >>

ComposeLookups == << <<"network", "name">> >>

ComposeContent_FixedNetwork(cfg) ==
  LET t == ComposeTemplate(F(cfg, <<"network", "name">>))
      i == CHOOSE j \in 1..Len(t) : t[j].indent = 0 /\ t[j].toks = <<"networks", ":">>
  IN [t EXCEPT ![i + 1] = K(2, "spark-network")]

ComposeContent_InlineVersion(cfg) ==
  LET t == ComposeTemplate(F(cfg, <<"network", "name">>))
  IN [j \in 1..Len(t) |->
        IF t[j].toks # <<>> /\ t[j].toks[1] = "image"
          THEN KV(4, "image", "bitnami/spark:" \o F(cfg, <<"spark", "version">>))
          ELSE t[j]]

ComposeContent(cfg) == ComposeTemplate(F(cfg, <<"network", "name">>))

(***************************************************************************)
(* create_directories: str.lstrip, pathlib's parsing and joining, and      *)
(* Path.mkdir(exist_ok=True) on a filesystem whose directories are named    *)
(* by their components below the repository root.                          *)
(***************************************************************************)
\* str.lstrip(chars): drops every leading character that is in chars.
RECURSIVE lstrip(_, _)
lstrip(s, chars) ==
  IF s # <<>> /\ Head(s) \in chars THEN lstrip(Tail(s), chars) ELSE s

StripChars == {".", "/"}

Front(s) == SubSeq(s, 1, Len(s) - 1)
Last(s) == s[Len(s)]

\* The components of a path string between slashes (empty ones included).
RECURSIVE SplitSlash(_, _)
SplitSlash(s, cur) ==
  IF s = <<>> THEN <<Concat(cur)>>
  ELSE IF Head(s) = "/" THEN <<Concat(cur)>> \o SplitSlash(Tail(s), <<>>)
  ELSE SplitSlash(Tail(s), Append(cur, Head(s)))

\* pathlib drops empty and "." components and keeps "..".
Parts(s) == SelectSeq(SplitSlash(s, <<>>), LAMBDA c : c # "" /\ c # ".")

LeadingSlashes(s) == Len(s) - Len(lstrip(s, {"/"}))

\* pathlib's root of a POSIX path: "//" for exactly two leading slashes.
Root(s) ==
  IF LeadingSlashes(s) = 0 THEN ""
  ELSE IF LeadingSlashes(s) = 2 THEN "//" ELSE "/"

PurePath(s) == [root |-> Root(s), parts |-> Parts(s)]

\* Path(__file__).parent.parent
base_dir == [root |-> "BASE", parts |-> <<>>]

\* base / other: a rooted right operand replaces the left one.
Join(base, other) ==
  IF other.root # "" THEN other
  ELSE [root |-> base.root, parts |-> base.parts \o other.parts]

\* base_dir / config['volumes'][...].lstrip('./')
TargetPath(raw) == Join(base_dir, PurePath(lstrip(raw, StripChars)))

\* Directory reached from cur by one component.
StepInto(cur, c) ==
  IF c = ".."
    THEN IF cur = <<>> \/ Last(cur) = ".." THEN Append(cur, "..") ELSE Front(cur)
    ELSE Append(cur, c)

\* The root, its ancestors and the directories of ds exist.
IsDir(p, ds) == (\A i \in 1..Len(p) : p[i] = "..") \/ p \in ds

RECURSIVE Walk(_, _, _, _)
Walk(cur, rest, ds, pf) ==
  IF rest = <<>> THEN [exc |-> "none", at |-> cur]
  ELSE LET nxt == StepInto(cur, Head(rest))
       IN IF IsDir(nxt, ds) THEN Walk(nxt, Tail(rest), ds, pf)
          ELSE IF nxt \in pf THEN [exc |-> "NotADirectoryError", at |-> cur]
          ELSE [exc |-> "FileNotFoundError", at |-> cur]

mkdir_NoExistOk(parts, ds, pf) ==
  IF parts = <<>> THEN [exc |-> "FileExistsError", dirs |-> ds]
  ELSE LET w == Walk(<<>>, Front(parts), ds, pf)
           target == StepInto(w.at, Last(parts))
       IN IF w.exc # "none" THEN [exc |-> w.exc, dirs |-> ds]
          ELSE IF IsDir(target, ds) THEN [exc |-> "FileExistsError", dirs |-> ds]
          ELSE IF target \in pf THEN [exc |-> "FileExistsError", dirs |-> ds]
          ELSE [exc |-> "none", dirs |-> ds \cup {target}]

\* Path.mkdir(exist_ok=True), parents=False, of a path below the root.
mkdir(parts, ds, pf) ==
  IF parts = <<>> THEN [exc |-> "none", dirs |-> ds]
  ELSE LET w == Walk(<<>>, Front(parts), ds, pf)
           target == StepInto(w.at, Last(parts))
       IN IF w.exc # "none" THEN [exc |-> w.exc, dirs |-> ds]
          ELSE IF IsDir(target, ds) THEN [exc |-> "none", dirs |-> ds]
          ELSE IF target \in pf THEN [exc |-> "FileExistsError", dirs |-> ds]
          ELSE [exc |-> "none", dirs |-> ds \cup {target}]

(***************************************************************************)
(* Configurations the runs are started with.                               *)
(***************************************************************************)
PathAlphabet == {".", "/", "n"}
AllPaths == UNION {[1..k -> PathAlphabet] : k \in 0..MaxPathLen}
DataPaths == { <<".", "/", "d">>, <<"d">>, <<"n", "/", "d">>, <<".", "/", "n">>, <<".", "d">> }

CompleteDoc(nb, dp, net, ver) ==
  MapV([spark |-> MapV([version |-> ver,
                        master |-> MapV([memory |-> StrV(<<"1", "g">>), cores |-> IntV(1)]),
                        worker |-> MapV([memory |-> StrV(<<"2", "g">>), cores |-> IntV(2),
                                         instances |-> IntV(1)]),
                        executor |-> MapV([memory |-> StrV(<<"1", "g">>), cores |-> IntV(1)])]),
        python |-> MapV([version |-> StrV(<<"3", ".", "1", "1">>)]),
        containers |-> MapV([jupyter |-> MapV([port |-> IntV(8888)]),
                             spark_master |-> MapV([port |-> IntV(7077), ui_port |-> IntV(8080)]),
                             spark_worker |-> MapV([ui_port |-> IntV(8081)])]),
        volumes |-> MapV([notebooks_path |-> nb, data_path |-> dp]),
        network |-> MapV([name |-> net])])

NetA == StrV(<<"s", "p", "a", "r", "k", "-", "n", "e", "t">>)
NetB == StrV(<<"d", "e", "v">>)
VerA == StrV(<<"3", ".", "5", ".", "0">>)
VerB == StrV(<<"3", ".", "4", ".", "1">>)
DefaultNb == StrV(<<".", "/", "n">>)
DefaultData == StrV(<<".", "/", "d">>)

DefaultDoc == CompleteDoc(DefaultNb, DefaultData, NetA, VerA)

\* Complete Configurations that differ in values other than the paths.
VariantDocs ==
  << CompleteDoc(DefaultNb, DefaultData, NetB, VerA),
     CompleteDoc(DefaultNb, DefaultData, NetA, VerB),
     CompleteDoc(DefaultNb, DefaultData, IntV(7), VerA),
     CompleteDoc(IntV(5), DefaultData, NetA, VerA),
     CompleteDoc(DefaultNb, IntV(5), NetB, VerB),
     CompleteDoc(DefaultNb, DefaultData, NetB, VerB) >>

\* Every key path of the Configuration, inner mappings included.
RECURSIVE Prefixes(_)
Prefixes(path) ==
  IF path = <<>> THEN {} ELSE {path} \cup Prefixes(Front(path))
\* The keys the script reads from the Configuration.
RequiredKeys ==
  { <<"spark", "version">>,
    <<"spark", "master", "memory">>, <<"spark", "master", "cores">>,
    <<"spark", "worker", "memory">>, <<"spark", "worker", "cores">>,
    <<"spark", "worker", "instances">>,
    <<"spark", "executor", "memory">>, <<"spark", "executor", "cores">>,
    <<"python", "version">>,
    <<"containers", "jupyter", "port">>,
    <<"containers", "spark_master", "port">>, <<"containers", "spark_master", "ui_port">>,
    <<"containers", "spark_worker", "ui_port">>,
    <<"volumes", "notebooks_path">>, <<"volumes", "data_path">>,
    <<"network", "name">> }

KeyPaths == UNION {Prefixes(q) : q \in RequiredKeys}

RECURSIVE Remove(_, _)
Remove(node, path) ==
  IF node.t # "map" \/ Head(path) \notin DOMAIN node.v THEN node
  ELSE IF Len(path) = 1
    THEN MapV([k \in DOMAIN node.v \ {Head(path)} |-> node.v[k]])
    ELSE MapV([k \in DOMAIN node.v |->
                 IF k = Head(path) THEN Remove(node.v[k], Tail(path)) ELSE node.v[k]])

RECURSIVE Replace(_, _, _)
Replace(node, path, new) ==
  IF path = <<>> THEN new
  ELSE IF node.t # "map" \/ Head(path) \notin DOMAIN node.v THEN node
  ELSE MapV([k \in DOMAIN node.v |->
               IF k = Head(path) THEN Replace(node.v[k], Tail(path), new) ELSE node.v[k]])

RECURSIVE RemoveAll(_, _)
RemoveAll(node, S) ==
  IF S = {} THEN node
  ELSE LET q == CHOOSE x \in S : TRUE IN RemoveAll(Remove(node, q), S \ {q})

RECURSIVE SubsetsUpTo(_)
SubsetsUpTo(k) ==
  IF k = 0 THEN {{}}
  ELSE LET prev == SubsetsUpTo(k - 1)
       IN prev \cup {s \cup {x} : s \in prev, x \in KeyPaths}

MissingSets == SubsetsUpTo(MaxMissing) \ {{}}
InnerPaths == {q \in KeyPaths : \E r \in KeyPaths : Len(r) > Len(q) /\ SubSeq(r, 1, Len(q)) = q}

(***************************************************************************)
(* State.                                                                  *)
(***************************************************************************)
VARIABLES
  pc,             \* position of main()
  run,            \* number of the current run
  configFile,     \* config/config.yaml: "absent", "malformed" or "ok"
  configDoc,      \* the document config/config.yaml parses to
  config,         \* main's local: the loaded Configuration
  envFile,        \* config/.env
  composeFile,    \* docker/docker-compose.yml
  dirs,           \* directories existing below the repository root
  plainFiles,     \* regular files existing below the repository root
  notebooks_path, \* create_directories' local
  data_path,      \* create_directories' local
  exc,            \* exception being propagated ("none" when none)
  out,            \* lines printed by this run
  outcome,        \* "running", "ok", "not_found" or "error"
  effects,        \* steps this run has completed, in order
  before          \* the files and directories when this run started

vars == <<pc, run, configFile, configDoc, config, envFile, composeFile, dirs,
          plainFiles, notebooks_path, data_path, exc, out, outcome, effects, before>>

StaleEnv == File(<<Assign("SPARK_VERSION", "0.0.0"), Assign("OLD_KEY", "1")>>)
StaleCompose == File(<<K(0, "services"), K(2, "old")>>)

PreDirs ==
  { [dirs |-> {}, files |-> {}],
    [dirs |-> {<<"n">>}, files |-> {}],
    [dirs |-> {<<"d">>}, files |-> {}],
    [dirs |-> {<<"n">>, <<"d">>}, files |-> {}],
    [dirs |-> {<<"n">>, <<"n", "d">>, <<"n", "n">>}, files |-> {}],
    [dirs |-> {<<"d">>}, files |-> {<<"n">>}] }

Snapshot(prev) ==
  [outcome |-> prev, env |-> envFile, compose |-> composeFile, dirs |-> dirs]

InitWith(cf, doc) ==
  /\ configFile = cf
  /\ configDoc = doc
  /\ envFile \in {NoFile, StaleEnv}
  /\ composeFile \in {NoFile, StaleCompose}
  /\ \E pre \in PreDirs, hasConfigDir \in BOOLEAN, hasDocker \in BOOLEAN :
       /\ cf # "absent" \/ envFile.exists => hasConfigDir
       /\ composeFile.exists => hasDocker
       /\ dirs = pre.dirs \cup (IF hasConfigDir THEN {<<"config">>} ELSE {})
                          \cup (IF hasDocker THEN {<<"docker">>} ELSE {})
       /\ plainFiles = pre.files
  /\ pc = "start"
  /\ run = 1
  /\ config = NullV
  /\ notebooks_path = base_dir
  /\ data_path = base_dir
  /\ exc = "none"
  /\ out = <<>>
  /\ outcome = "running"
  /\ effects = <<>>
  /\ before = Snapshot("none")

Init ==
  \/ InitWith("absent", NullV)
  \/ InitWith("malformed", NullV)
  \/ InitWith("ok", NullV)
  \/ \E p \in AllPaths, q \in DataPaths :
       InitWith("ok", CompleteDoc(StrV(p), StrV(q), NetA, VerA))
  \/ \E i \in 1..Len(VariantDocs) : InitWith("ok", VariantDocs[i])
  \/ \E S \in MissingSets : InitWith("ok", RemoveAll(DefaultDoc, S))
  \/ \E q \in InnerPaths : InitWith("ok", Replace(DefaultDoc, q, NullV))

(***************************************************************************)
(* main() and the functions it calls.                                      *)
(***************************************************************************)
Raise(e) ==
  /\ exc' = e
  /\ pc' = "except"

\* line 155
Main ==
  /\ pc = "start"
  /\ out' = Append(out, "setting_up")
  /\ pc' = "load"
  /\ UNCHANGED <<run, configFile, configDoc, config, envFile, composeFile, dirs,
                 plainFiles, notebooks_path, data_path, exc, outcome, effects, before>>

LoadConfig_NoRaise ==
  /\ pc = "load"
  /\ IF configFile = "malformed"
       THEN /\ Raise("YAMLError")
            /\ UNCHANGED <<config, out, effects>>
       ELSE /\ config' = IF configFile = "absent" THEN NullV ELSE configDoc
            /\ out' = Append(out, "loaded")
            /\ effects' = Append(effects, "load")
            /\ pc' = "gen_env"
            /\ exc' = exc
  /\ UNCHANGED <<run, configFile, configDoc, envFile, composeFile, dirs,
                 plainFiles, notebooks_path, data_path, outcome, before>>

\* lines 158-159 and load_config
LoadConfig ==
  /\ pc = "load"
  /\ IF configFile = "absent"
       THEN /\ Raise("FileNotFoundError")
            /\ UNCHANGED <<config, out, effects>>
       ELSE IF configFile = "malformed"
       THEN /\ Raise("YAMLError")
            /\ UNCHANGED <<config, out, effects>>
       ELSE /\ config' = configDoc
            /\ out' = Append(out, "loaded")
            /\ effects' = Append(effects, "load")
            /\ pc' = "gen_env"
            /\ exc' = exc
  /\ UNCHANGED <<run, configFile, configDoc, envFile, composeFile, dirs,
                 plainFiles, notebooks_path, data_path, outcome, before>>

\* open(path, 'w') followed by f.write(content): the file is replaced.
WriteFile_Append(old, content) == File(old.lines \o content)

WriteFile(old, content) == File(content)

\* line 162 and generate_env_file: the text is built before the file is opened.
GenerateEnvFile ==
  /\ pc = "gen_env"
  /\ LET e == FirstExc(config, EnvLookups)
     IN IF e # "none"
          THEN /\ Raise(e)
               /\ UNCHANGED <<envFile, out, effects>>
          ELSE IF <<"config">> \notin dirs
          THEN /\ Raise("FileNotFoundError")
               /\ UNCHANGED <<envFile, out, effects>>
          ELSE /\ envFile' = WriteFile(envFile, EnvContent(config))
               /\ out' = Append(out, "generated_env")
               /\ effects' = Append(effects, "env")
               /\ pc' = "gen_compose"
               /\ exc' = exc
  /\ UNCHANGED <<run, configFile, configDoc, config, composeFile, dirs,
                 plainFiles, notebooks_path, data_path, outcome, before>>

GenerateDockerCompose_Continue ==
  /\ pc = "gen_compose"
  /\ LET e == FirstExc(config, ComposeLookups)
     IN IF e # "none" \/ <<"docker">> \notin dirs
          THEN /\ pc' = "cd_paths"
               /\ UNCHANGED <<composeFile, out, effects, exc>>
          ELSE /\ composeFile' = WriteFile(composeFile, ComposeContent(config))
               /\ out' = Append(out, "generated_compose")
               /\ effects' = Append(effects, "compose")
               /\ pc' = "cd_paths"
               /\ exc' = exc
  /\ UNCHANGED <<run, configFile, configDoc, config, envFile, dirs,
                 plainFiles, notebooks_path, data_path, outcome, before>>

\* line 163 and generate_docker_compose
GenerateDockerCompose ==
  /\ pc = "gen_compose"
  /\ LET e == FirstExc(config, ComposeLookups)
     IN IF e # "none"
          THEN /\ Raise(e)
               /\ UNCHANGED <<composeFile, out, effects>>
          ELSE IF <<"docker">> \notin dirs
          THEN /\ Raise("FileNotFoundError")
               /\ UNCHANGED <<composeFile, out, effects>>
          ELSE /\ composeFile' = WriteFile(composeFile, ComposeContent(config))
               /\ out' = Append(out, "generated_compose")
               /\ effects' = Append(effects, "compose")
               /\ pc' = "cd_paths"
               /\ exc' = exc
  /\ UNCHANGED <<run, configFile, configDoc, config, envFile, dirs,
                 plainFiles, notebooks_path, data_path, outcome, before>>

DirLookups == << <<"volumes", "notebooks_path">>, <<"volumes", "data_path">> >>

\* The first exception of lines 145-146: a failed lookup, or .lstrip on a
\* value that is not a string.
PathsExc(cfg) ==
  LET nb == GetPath(cfg, DirLookups[1])
      dp == GetPath(cfg, DirLookups[2])
  IN IF nb.exc # "none" THEN nb.exc
     ELSE IF nb.val.t # "str" THEN "AttributeError"
     ELSE IF dp.exc # "none" THEN dp.exc
     ELSE IF dp.val.t # "str" THEN "AttributeError"
     ELSE "none"

\* line 164 and create_directories, lines 144-146
CreateDirectories ==
  /\ pc = "cd_paths"
  /\ IF PathsExc(config) # "none"
       THEN /\ Raise(PathsExc(config))
            /\ UNCHANGED <<notebooks_path, data_path>>
       ELSE /\ notebooks_path' = TargetPath(GetPath(config, DirLookups[1]).val.v)
            /\ data_path' = TargetPath(GetPath(config, DirLookups[2]).val.v)
            /\ pc' = "mkdir_nb"
            /\ exc' = exc
  /\ UNCHANGED <<run, configFile, configDoc, config, envFile, composeFile, dirs,
                 plainFiles, out, outcome, effects, before>>

\* line 148
MkdirNotebooks ==
  /\ pc = "mkdir_nb"
  /\ LET r == mkdir(notebooks_path.parts, dirs, plainFiles)
     IN IF r.exc # "none"
          THEN /\ Raise(r.exc)
               /\ UNCHANGED <<dirs, effects>>
          ELSE /\ dirs' = r.dirs
               /\ effects' = Append(effects, "mkdir_nb")
               /\ pc' = "mkdir_data"
               /\ exc' = exc
  /\ UNCHANGED <<run, configFile, configDoc, config, envFile, composeFile,
                 plainFiles, notebooks_path, data_path, out, outcome, before>>

\* lines 149-151
MkdirData ==
  /\ pc = "mkdir_data"
  /\ LET r == mkdir(data_path.parts, dirs, plainFiles)
     IN IF r.exc # "none"
          THEN /\ Raise(r.exc)
               /\ UNCHANGED <<dirs, effects, out>>
          ELSE /\ dirs' = r.dirs
               /\ effects' = Append(effects, "mkdir_data")
               /\ out' = Append(out, "created_directories")
               /\ pc' = "epilogue"
               /\ exc' = exc
  /\ UNCHANGED <<run, configFile, configDoc, config, envFile, composeFile,
                 plainFiles, notebooks_path, data_path, outcome, before>>

\* lines 166-176
Epilogue ==
  /\ pc = "epilogue"
  /\ out' = Append(out, "setup_complete")
  /\ outcome' = "ok"
  /\ pc' = "done"
  /\ UNCHANGED <<run, configFile, configDoc, config, envFile, composeFile, dirs,
                 plainFiles, notebooks_path, data_path, exc, effects, before>>

\* lines 178-179
ExceptFileNotFound ==
  /\ pc = "except"
  /\ exc = "FileNotFoundError"
  /\ out' = Append(out, "config_not_found")
  /\ outcome' = "not_found"
  /\ pc' = "done"
  /\ UNCHANGED <<run, configFile, configDoc, config, envFile, composeFile, dirs,
                 plainFiles, notebooks_path, data_path, exc, effects, before>>

\* lines 180-181
ExceptException ==
  /\ pc = "except"
  /\ exc # "FileNotFoundError"
  /\ out' = Append(out, "error")
  /\ outcome' = "error"
  /\ pc' = "done"
  /\ UNCHANGED <<run, configFile, configDoc, config, envFile, composeFile, dirs,
                 plainFiles, notebooks_path, data_path, exc, effects, before>>

\* The script is run again on the filesystem the last run left.
Rerun ==
  /\ pc = "done"
  /\ run < MaxRuns
  /\ run' = run + 1
  /\ pc' = "start"
  /\ config' = NullV
  /\ notebooks_path' = base_dir
  /\ data_path' = base_dir
  /\ exc' = "none"
  /\ out' = <<>>
  /\ outcome' = "running"
  /\ effects' = <<>>
  /\ before' = Snapshot(outcome)
  /\ UNCHANGED <<configFile, configDoc, envFile, composeFile, dirs, plainFiles>>

Next ==
  \/ Main
  \/ LoadConfig
  \/ GenerateEnvFile
  \/ GenerateDockerCompose
  \/ CreateDirectories
  \/ MkdirNotebooks
  \/ MkdirData
  \/ Epilogue
  \/ ExceptFileNotFound
  \/ ExceptException
  \/ Rerun

Spec == Init /\ [][Next]_vars

(***************************************************************************)
(* Properties.                                                             *)
(***************************************************************************)
Range(s) == {s[i] : i \in 1..Len(s)}

\* Some required key cannot be read from the Configuration.
Missing(cfg) == \E q \in RequiredKeys : GetPath(cfg, q).exc # "none"

\* Every required key is present and holds a string or an integer.
WellFormed(cfg) ==
  \A q \in RequiredKeys :
    /\ GetPath(cfg, q).exc = "none"
    /\ GetPath(cfg, q).val.t \in {"str", "int"}

FilesUntouched == envFile = before.env /\ composeFile = before.compose

\* C1: a run whose Configuration misses a required key, at any nesting
\* level, aborts with an error and config/.env and docker/docker-compose.yml
\* keep the content (or absence) they had before the run.
C1_MissingKeyWritesNothing ==
  (configFile = "ok" /\ Missing(configDoc)) =>
     /\ FilesUntouched
     /\ outcome # "ok"
     /\ pc = "done" => outcome = "error"

C1_Witness ==
  /\ pc = "done"
  /\ configFile = "ok"
  /\ Missing(configDoc)
  /\ exc = "KeyError"
  /\ outcome = "error"
  /\ before.env.exists
  /\ GetPath(configDoc, <<"spark", "version">>).exc = "none"

\* C2: when config/config.yaml is absent, the run prints the "not found"
\* message, leaves both output files untouched and creates no directory.
C2_AbsentConfigTouchesNothing ==
  configFile = "absent" =>
     /\ FilesUntouched
     /\ dirs = before.dirs
     /\ pc = "done" => (outcome = "not_found" /\ "config_not_found" \in Range(out))

C2_Witness ==
  /\ pc = "done"
  /\ configFile = "absent"
  /\ "config_not_found" \in Range(out)
  /\ before.env.exists
  /\ before.compose.exists

\* C3: whenever the "config/config.yaml not found" message is printed, the
\* configuration file was absent and neither output file was written in
\* this run.
C3_NotFoundOnlyForConfig ==
  "config_not_found" \in Range(out) =>
     /\ configFile = "absent"
     /\ "env" \notin Range(effects)
     /\ "compose" \notin Range(effects)

\* The KEY=value lines of an environment file.
AssignIdx(file) ==
  {i \in 1..Len(file.lines) :
     Len(file.lines[i].toks) = 3 /\ file.lines[i].toks[2] = "="}
EnvKeys(file) == {file.lines[i].toks[1] : i \in AssignIdx(file)}

DocumentedEnv ==
  [SPARK_VERSION |-> <<"spark", "version">>,
   SPARK_MASTER_MEMORY |-> <<"spark", "master", "memory">>,
   SPARK_MASTER_CORES |-> <<"spark", "master", "cores">>,
   SPARK_WORKER_MEMORY |-> <<"spark", "worker", "memory">>,
   SPARK_WORKER_CORES |-> <<"spark", "worker", "cores">>,
   SPARK_WORKER_INSTANCES |-> <<"spark", "worker", "instances">>,
   SPARK_EXECUTOR_MEMORY |-> <<"spark", "executor", "memory">>,
   SPARK_EXECUTOR_CORES |-> <<"spark", "executor", "cores">>,
   PYTHON_VERSION |-> <<"python", "version">>,
   JUPYTER_PORT |-> <<"containers", "jupyter", "port">>,
   SPARK_MASTER_UI_PORT |-> <<"containers", "spark_master", "ui_port">>,
   SPARK_MASTER_PORT |-> <<"containers", "spark_master", "port">>,
   SPARK_WORKER_UI_PORT |-> <<"containers", "spark_worker", "ui_port">>,
   NOTEBOOKS_PATH |-> <<"volumes", "notebooks_path">>,
   DATA_PATH |-> <<"volumes", "data_path">>,
   NETWORK_NAME |-> <<"network", "name">>]

\* Every KEY=value line carries the text of the Configuration value of its key.
ValuesVerbatim ==
  \A i \in AssignIdx(envFile) :
    LET k == envFile.lines[i].toks[1]
    IN /\ k \in DOMAIN DocumentedEnv
       /\ envFile.lines[i].toks[3] = Str(GetPath(configDoc, DocumentedEnv[k]).val)

EnvWritten == "env" \in Range(effects) /\ WellFormed(configDoc)

\* C4 as stated: the environment file written from a complete, well-formed
\* Configuration has exactly fourteen keys, each with its value verbatim.
C4_FourteenKeys ==
  EnvWritten =>
     /\ Cardinality(AssignIdx(envFile)) = 14
     /\ Cardinality(EnvKeys(envFile)) = 14
     /\ ValuesVerbatim

\* C4 amended: the environment file written from a complete, well-formed
\* Configuration has exactly sixteen KEY=value lines, one for each of the
\* sixteen keys read from the Configuration, each with its value verbatim.
C4_SixteenKeys ==
  EnvWritten =>
     /\ Cardinality(AssignIdx(envFile)) = 16
     /\ EnvKeys(envFile) = DOMAIN DocumentedEnv
     /\ ValuesVerbatim

C4_Witness ==
  /\ pc = "done"
  /\ outcome = "ok"
  /\ EnvWritten
  /\ before.env = StaleEnv
  /\ GetPath(configDoc, <<"network", "name">>).val.t = "int"

\* C5: a successful run that follows a successful run leaves config/.env
\* and docker/docker-compose.yml identical to what the earlier run left.
C5_RerunIdempotent ==
  (pc = "done" /\ outcome = "ok" /\ before.outcome = "ok") => FilesUntouched

C5_Witness ==
  /\ pc = "done"
  /\ outcome = "ok"
  /\ before.outcome = "ok"
  /\ run >= 2
  /\ {"env", "compose"} \subseteq Range(effects)

\* What C6 says the directory of a path is: the root joined with the path
\* less one leading "./".
ClaimedTarget(raw) ==
  Join(base_dir,
       PurePath(IF Len(raw) >= 2 /\ raw[1] = "." /\ raw[2] = "/"
                  THEN SubSeq(raw, 3, Len(raw)) ELSE raw))

PathsComputed == pc \in {"mkdir_nb", "mkdir_data", "epilogue"}

\* C6: the directories are located at the repository root joined with
\* volumes.notebooks_path and volumes.data_path less one leading "./";
\* a path without that prefix is used unchanged.
C6_OnlyDotSlashStripped ==
  PathsComputed =>
     /\ notebooks_path = ClaimedTarget(GetPath(config, <<"volumes", "notebooks_path">>).val.v)
     /\ data_path = ClaimedTarget(GetPath(config, <<"volumes", "data_path">>).val.v)

\* The structure of a manifest: a line opens a block when it is "key:".
IsKey(l) == Len(l.toks) = 2 /\ l.toks[2] = ":"
IsItem(l) == Len(l.toks) = 3 /\ l.toks[1] = "-"
IsText(l) == l.toks # <<>> /\ l.toks[1] # "#"

\* The top-level section line i of the manifest is in: the key of the last
\* unindented line above it.
SectionOf(ls, i) ==
  LET tops == {j \in 1..(i - 1) : ls[j].indent = 0 /\ IsText(ls[j])}
  IN IF tops = {} THEN "" ELSE ls[CHOOSE j \in tops : \A k \in tops : k <= j].toks[1]

\* The lines that open a block directly below the given top-level section.
BlocksOf(ls, section) ==
  {i \in 1..Len(ls) : ls[i].indent = 2 /\ IsKey(ls[i]) /\ SectionOf(ls, i) = section}

\* The last line of the block opened at line i with indentation d.
BlockEnd(ls, i, d) ==
  LET after == {j \in (i + 1)..Len(ls) : IsText(ls[j]) /\ ls[j].indent <= d}
  IN IF after = {} THEN Len(ls) ELSE (CHOOSE j \in after : \A k \in after : j <= k) - 1

\* The entries of the "networks:" lists of the service opened at line i.
ServiceNetworks(ls, i) ==
  LET heads == {j \in (i + 1)..BlockEnd(ls, i, 2) :
                  ls[j].indent = 4 /\ ls[j].toks = <<"networks", ":">>}
  IN UNION {{ls[k].toks[3] : k \in {m \in (j + 1)..BlockEnd(ls, j, 4) : IsItem(ls[m])}}
            : j \in heads}

ComposeWritten == "compose" \in Range(effects)

\* C7: the manifest written has exactly the three service blocks
\* spark-master, spark-worker and jupyter and exactly one network block, and
\* the network block and every service's networks list name network.name.
C7_ManifestStructure ==
  ComposeWritten =>
    LET ls == composeFile.lines
        name == Str(GetPath(configDoc, <<"network", "name">>).val)
    IN /\ Cardinality(BlocksOf(ls, "services")) = 3
       /\ {ls[i].toks[1] : i \in BlocksOf(ls, "services")}
            = {"spark-master", "spark-worker", "jupyter"}
       /\ Cardinality(BlocksOf(ls, "networks")) = 1
       /\ \A i \in BlocksOf(ls, "networks") : ls[i].toks[1] = name
       /\ \A i \in BlocksOf(ls, "services") : ServiceNetworks(ls, i) = {name}

C7_Witness ==
  /\ ComposeWritten
  /\ pc = "done"
  /\ GetPath(configDoc, <<"network", "name">>).val.t = "str"
  /\ Str(GetPath(configDoc, <<"network", "name">>).val) = "dev"

\* A directory exists where mkdir would put the path.
DirExists(parts, ds, pf) ==
  \/ parts = <<>>
  \/ /\ Walk(<<>>, Front(parts), ds, pf).exc = "none"
     /\ IsDir(StepInto(Walk(<<>>, Front(parts), ds, pf).at, Last(parts)), ds)

\* create_directories has computed its two paths in this run.
CreateDirsRan ==
  /\ ComposeWritten
  /\ PathsExc(config) = "none"
  /\ pc # "cd_paths"

TargetsExisted ==
  /\ DirExists(notebooks_path.parts, before.dirs, plainFiles)
  /\ DirExists(data_path.parts, before.dirs, plainFiles)

\* C8: when both target directories exist already, create_directories
\* raises nothing, the run completes successfully and the set of
\* directories is unchanged.
C8_ExistingDirsNoOp ==
  (CreateDirsRan /\ TargetsExisted) =>
     /\ dirs = before.dirs
     /\ exc = "none"
     /\ pc = "done" => outcome = "ok"

C8_Witness ==
  /\ CreateDirsRan
  /\ TargetsExisted
  /\ pc = "done"
  /\ notebooks_path.parts = <<"n">>
  /\ data_path.parts = <<"d">>
  /\ run = 1

StepOrder == <<"load", "env", "compose", "mkdir_nb", "mkdir_data">>

Failed == exc # "none" \/ outcome \in {"error", "not_found"}

OrderInv ==
  /\ effects = SubSeq(StepOrder, 1, Len(effects))
  /\ ComposeWritten => "env" \in Range(effects)
  /\ composeFile # before.compose => ComposeWritten
  /\ envFile # before.env => "env" \in Range(effects)
  /\ dirs # before.dirs => {"env", "compose"} \subseteq Range(effects)
  /\ "mkdir_nb" \in Range(effects) => {"env", "compose"} \subseteq Range(effects)
  /\ Failed => pc \in {"except", "done"}

OrderStep ==
  /\ (Failed /\ run' = run) => UNCHANGED <<envFile, composeFile, dirs, effects>>
  /\ run' = run =>
       /\ envFile' # envFile => effects' = Append(effects, "env")
       /\ composeFile' # composeFile => effects' = Append(effects, "compose")
       /\ dirs' # dirs => (effects' = Append(effects, "mkdir_nb")
                            \/ effects' = Append(effects, "mkdir_data"))

\* C9: the steps run in the order load, write .env, write manifest, create
\* notebooks directory, create data directory; the manifest is written only
\* after .env, a directory is created only after both files, and once a step
\* has failed nothing more is written and what was written stays.
C9_StepOrder == []OrderInv /\ [][OrderStep]_vars

C9_Witness ==
  /\ pc = "done"
  /\ outcome = "error"
  /\ effects = <<"load", "env", "compose", "mkdir_nb">>
  /\ envFile # before.env
  /\ composeFile # before.compose
  /\ dirs # before.dirs

SameNetwork(c1, c2) ==
  Str(GetPath(c1, <<"network", "name">>).val) = Str(GetPath(c2, <<"network", "name">>).val)

\* C10: the manifest written for a Configuration is the manifest of every
\* complete Configuration with the same network.name, whatever its other
\* values are.
C10_ManifestOnlyNetwork ==
  ComposeWritten =>
    /\ SameNetwork(DefaultDoc, configDoc) => composeFile = File(ComposeContent(DefaultDoc))
    /\ \A i \in 1..Len(VariantDocs) :
         SameNetwork(VariantDocs[i], configDoc) =>
            composeFile = File(ComposeContent(VariantDocs[i]))

C10_Witness ==
  /\ ComposeWritten
  /\ pc = "done"
  /\ SameNetwork(DefaultDoc, configDoc)
  /\ F(configDoc, <<"spark", "version">>) # F(DefaultDoc, <<"spark", "version">>)
  /\ composeFile = File(ComposeContent(DefaultDoc))

====
